---------------------------- MODULE Spec2Model ----------------------------
(***************************************************************************)
(* Model of src/embedding.rs: the in-memory strategy                       *)
(* (calculate_embeddings / MatrixMultiplicator) and the disk-backed        *)
(* strategy (calculate_embeddings_mmap / MatrixMultiplicatorMMap).         *)
(*                                                                         *)
(* One behaviour is one input (hash table, entry stream, max_iter, entity  *)
(* mapping) processed first by calculate_embeddings and then by            *)
(* calculate_embeddings_mmap: both take `&mut SparseMatrix`, so two runs   *)
(* over the same sparse matrix never overlap.                              *)
(*                                                                         *)
(* Numbers.  An f32 is modelled as a fixed-point number with FracBits      *)
(* fractional bits (the integer v stands for v / FracScale), or NaN.       *)
(* Indices are 0-based as in the source; a Vec is a TLA+ sequence, so the  *)
(* element at Rust index j is col[j + 1].                                  *)
(***************************************************************************)
EXTENDS Integers, Sequences, FiniteSets, TLC

\* ------------------------------------------------------------------ bounds
\* entities_count of the modelled sparse matrices
EntitiesCount == 2
\* largest max_iter of a modelled run
MaxIter == 2
\* longest modelled entry stream (amount_of_data)
MaxEntries == 2
\* fractional bits of the fixed-point stand-in for f32
FracBits == 8
\* the initializer is probed on the hashes -HashRange .. HashRange
HashRange == 100

\* ------------------------------------------------------- program constants
\* `dimension: u16` of the multiplicator
dimension == 2
\* `let max_hash = 8 * 1024 * 1024;`
max_hash == 8388608
\* the empty-slot marker compared against in `if hsh != -1`
SENTINEL == -1

FracScale == 2 ^ FracBits
\* extra resolution kept by sqrt, so that small sums keep f32's relative accuracy
SqrtGuard == 2 ^ 3

Dims == 0 .. (dimension - 1)
Ents == 0 .. (EntitiesCount - 1)

\* ------------------------------------------------------------- f32 values
Fin(v) == [fin |-> TRUE, v |-> v]
NaN == [fin |-> FALSE, v |-> 0]
Zero == Fin(0)

Abs(n) == IF n < 0 THEN -n ELSE n
Sgn(n) == IF n < 0 THEN -1 ELSE 1

\* quotient rounded to nearest, sign of the dividend kept (d > 0)
RoundDiv(n, d) == Sgn(n) * ((2 * Abs(n) + d) \div (2 * d))

RECURSIVE SqrtBits(_, _, _)
\* the largest r' >= r with r' * r' <= n, deciding one bit b at a time
SqrtBits(n, r, b) ==
    IF b = 0
    THEN r
    ELSE IF (r + b) * (r + b) <= n
         THEN SqrtBits(n, r + b, b \div 2)
         ELSE SqrtBits(n, r, b \div 2)

\* the square root of n < 2^30, rounded to nearest
ISqrt(n) ==
    LET r == SqrtBits(n, 0, 16384)
    IN  IF n - r * r > r THEN r + 1 ELSE r

\* a + b
FAdd(a, b) == IF a.fin /\ b.fin THEN Fin(a.v + b.v) ELSE NaN

\* a * b
FMul(a, b) == IF a.fin /\ b.fin THEN Fin(RoundDiv(a.v * b.v, FracScale)) ELSE NaN

\* value.powi(2), kept exactly: the integer stands for v / FracScale^2
FSquare(a) == IF a.fin THEN Fin(a.v * a.v) ELSE NaN

\* sum.sqrt() of a sum of squares: the root in units of 1 / (FracScale * SqrtGuard)
FSqrt(s) ==
    IF s.fin
    THEN [fin |-> TRUE, r |-> ISqrt(s.v * SqrtGuard * SqrtGuard)]
    ELSE [fin |-> FALSE, r |-> 0]

\* variant: the quotient is dropped, the value stays as it was
FDivKeepsValue(a, q) == a

\* value / root: 0.0 / 0.0 is NaN, anything over NaN is NaN
FDiv(a, q) ==
    IF (~a.fin) \/ (~q.fin) \/ q.r = 0
    THEN NaN
    ELSE Fin(RoundDiv(a.v * FracScale * SqrtGuard, q.r))

\* ------------------------------------------------------------------- hash
\* A u64 is its 8 bytes, least significant first (write_i64 feeds the
\* native-endian bytes of the i64 to the hasher).
Byte(n, k) == (n \div (256 ^ k)) % 256

\* the two's-complement bytes of the i64 n (|n| < 2^31 in the model)
I64Bytes(n) ==
    [k \in 1 .. 8 |->
        IF n >= 0
        THEN (IF k <= 4 THEN Byte(n, k - 1) ELSE 0)
        ELSE 255 - (IF k <= 4 THEN Byte(-n - 1, k - 1) ELSE 0)]

RECURSIVE Xor8(_, _, _)
\* a ^ b on the low `bits` bits
Xor8(a, b, bits) ==
    IF bits = 0
    THEN 0
    ELSE ((a + b) % 2) + 2 * Xor8(a \div 2, b \div 2, bits - 1)

\* FnvHasher::default(): 0xcbf29ce484222325
FnvOffsetBasis == <<37, 35, 34, 132, 228, 156, 242, 203>>

RECURSIVE MulLow(_, _, _)
\* the bytes k..8 of h * 0x1b3, carry coming in
MulLow(h, k, carry) ==
    IF k > 8
    THEN <<>>
    ELSE LET t == h[k] * 435 + carry
         IN  <<t % 256>> \o MulLow(h, k + 1, t \div 256)

RECURSIVE AddBytes(_, _, _, _)
\* the bytes k..8 of a + b mod 2^64
AddBytes(a, b, k, carry) ==
    IF k > 8
    THEN <<>>
    ELSE LET t == a[k] + b[k] + carry
         IN  <<t % 256>> \o AddBytes(a, b, k + 1, t \div 256)

\* h.wrapping_mul(0x100000001b3) = h * 0x1b3 + (h << 40) mod 2^64
MulPrime(h) ==
    LET low  == MulLow(h, 1, 0)
        high == [k \in 1 .. 8 |-> IF k <= 5 THEN 0 ELSE h[k - 5]]
    IN  AddBytes(low, high, 1, 0)

RECURSIVE FnvWrite(_, _, _)
\* for byte in bytes { hash ^= byte; hash = hash.wrapping_mul(PRIME) }
FnvWrite(h, bytes, k) ==
    IF k > 8
    THEN h
    ELSE FnvWrite(MulPrime([h EXCEPT ![1] = Xor8(h[1], bytes[k], 8)]), bytes, k + 1)

\* fn hash(num: i64) -> i64, as the bit pattern of the result
hash(num) == FnvWrite(FnvOffsetBasis, I64Bytes(num), 1)

\* `hasher.finish() as i64` is negative when bit 63 is set
IsNegative(u) == u[8] >= 128

Low23(u) == u[1] + 256 * u[2] + 65536 * (u[3] % 128)

\* variant: the remainder of the u64, taken before the cast to i64
HashRemUnsigned(u) == Low23(u)

\* `(x as i64) % max_hash`: Rust's remainder keeps the sign of the dividend
HashRem(u) ==
    IF IsNegative(u)
    THEN -((max_hash - Low23(u)) % max_hash)
    ELSE Low23(u)

\* `((hash(hsh + i) % max_hash) as f32) / max_hash_float`
ColValue(hsh, i) ==
    LET r == HashRem(hash(hsh + i))
    IN  Fin(Sgn(r) * (Abs(r) \div (max_hash \div FracScale)))

\* ------------------------------------------------------------------ state
VARIABLES
    \* the input of both runs
    hashes,           \* get_hash(j) is hashes[j + 1]
    entries,          \* get_entry(j) is entries[j + 1]
    max_iter,
    entity_mapping,   \* the hashes get_entity resolves
    probe,            \* one application of the initializer's formula
    chunk,            \* one computation of a phase's chunk size
    \* calculate_embeddings
    pc,               \* where the in-memory run is
    res,              \* the matrix: res[i] is column i, a Vec<f32>
    rnew,             \* next_power's output columns
    row_sum,          \* normalize's per-entity sums
    task,             \* task[i]: the next index column i's closure handles
    iter,             \* propagate's loop counter i
    persisted,        \* persist's loop counter i
    out,              \* the calls made on embedding_persistor
    generation,       \* generation[k]: the matrix propagate held after round k (history)
    \* calculate_embeddings_mmap
    pc_mmap,          \* where the disk-backed run is
    disk,             \* disk[k]: the file {id}_matrix_k
    mapped,           \* the generations whose MmapMut is alive
    row_sum_mmap,
    task_mmap,
    iter_mmap,
    persisted_mmap,
    out_mmap,
    \* what has happened to the generation files (history)
    created,          \* generations whose file this run has opened
    stage,            \* stage[k]: how far generation k has been computed
    flushed,          \* generations flushed since their last write
    removed,          \* generations whose file this run has deleted
    fs_failed         \* a file-system operation has returned Err

vars_input == <<hashes, entries, max_iter, entity_mapping, probe, chunk>>
vars_mem == <<pc, res, rnew, row_sum, task, iter, persisted, out, generation>>
vars_mmap == <<pc_mmap, disk, mapped, row_sum_mmap, task_mmap, iter_mmap,
               persisted_mmap, out_mmap>>
vars_hist == <<created, stage, flushed, removed, fs_failed>>

\* -------------------------------------------------------- the sparse source
get_entity_counter == Len(hashes)
get_amount_of_data == Len(entries)
get_hash(j) == hashes[j + 1]
get_entry(j) == entries[j + 1]
\* the occurrence count kept for a hash
get_hash_occurrence(h) == IF h = SENTINEL THEN 0 ELSE 1 + (h % 3)
\* Option<String>: Some(name) exactly for the hashes the mapping holds
get_entity(h) == h \in entity_mapping

\* the hashes the initializer's formula is probed on
HashProbes == ((-HashRange) .. HashRange) \ {SENTINEL}

\* the valid hash interned at index j
HashAt(j) == 10 * (j + 1)
Weights == {FracScale \div 2, FracScale}
Entry == [row : Ents, col : Ents, value : Weights]

RECURSIVE SeqsUpTo(_, _)
\* the sequences over S of length at most n
SeqsUpTo(S, n) ==
    IF n = 0
    THEN {<<>>}
    ELSE LET shorter == SeqsUpTo(S, n - 1)
         IN  shorter \cup {Append(q, x) : q \in {t \in shorter : Len(t) = n - 1}, x \in S}

HashTables == {h \in [1 .. EntitiesCount -> {SENTINEL} \cup {HashAt(j) : j \in Ents}] :
                  \A j \in Ents : h[j + 1] \in {SENTINEL, HashAt(j)}}

\* ----------------------------------------------------------- Vec<f32> ops
\* Vec::get(j): Some(value) when j < len
InBounds(col, j) == j < Len(col)
Get(col, j) == col[j + 1]
\* Vec::insert(j, v): panics when j > len, else shifts the tail right
CanInsert(col, j) == j <= Len(col)
Insert(col, j, v) == SubSeq(col, 1, j) \o <<v>> \o SubSeq(col, j + 1, Len(col))

\* fn zero_2d(row, col): `col` columns of `row` zeros
zero_2d(row, col) == [i \in 0 .. (col - 1) |-> [j \in 1 .. row |-> Zero]]

NoMatrix == [i \in Dims |-> <<>>]
NoProbe == [hsh |-> SENTINEL, i |-> 0, applied |-> FALSE, rem |-> 0]
NoTasks == [i \in Dims |-> 0]
NoChunk == [entities_count |-> <<0, 0>>, build |-> "release", phase |-> "none",
            panicked |-> FALSE, size |-> <<0, 0, 0, 0>>]

\* unwinding drops every Vec the run owns
Panic ==
    /\ pc' = "panic"
    /\ res' = NoMatrix
    /\ rnew' = NoMatrix
    /\ row_sum' = <<>>
    /\ task' = NoTasks
    /\ UNCHANGED <<iter, persisted, out, generation>>
    /\ UNCHANGED <<vars_mmap, vars_hist>>

\* ------------------------------------------- MatrixMultiplicator (in memory)
\* initialize, the closure of column i at entity j = task[i]
InitializeStep(i) ==
    /\ pc = "initialize"
    /\ task[i] < get_entity_counter
    /\ LET j == task[i]
           hsh == get_hash(j)
       IN  IF hsh # SENTINEL
           THEN IF CanInsert(res[i], j)
                THEN /\ res' = [res EXCEPT ![i] = Insert(res[i], j, ColValue(hsh, i))]
                     /\ task' = [task EXCEPT ![i] = j + 1]
                     /\ UNCHANGED <<pc, rnew, row_sum, iter, persisted, out>>
                ELSE Panic
           ELSE /\ task' = [task EXCEPT ![i] = j + 1]
                /\ UNCHANGED <<pc, res, rnew, row_sum, iter, persisted, out>>
    /\ UNCHANGED <<vars_input, vars_mmap, vars_hist, generation>>

\* initialize, `.collect()` once every column is built; propagate begins
InitializeDone ==
    /\ pc = "initialize"
    /\ \A i \in Dims : task[i] = get_entity_counter
    /\ pc' = "propagate"
    /\ iter' = 0
    /\ generation' = [generation EXCEPT ![0] = res]
    /\ UNCHANGED <<res, rnew, row_sum, task, persisted, out, vars_input, vars_mmap, vars_hist>>

\* variant: the loop runs for i in 0..=max_iter
RoundsLeftInclusive(i) == i <= max_iter

\* propagate, `for i in 0..max_iter`: the loop goes on while i < max_iter
RoundsLeft(i) == i < max_iter

\* propagate, `for i in 0..max_iter`: another round, or hand new_res to persist
PropagateLoop ==
    /\ pc = "propagate"
    /\ IF RoundsLeft(iter)
       THEN /\ pc' = "next_power"
            /\ rnew' = zero_2d(get_entity_counter, dimension)
            /\ task' = NoTasks
       ELSE /\ pc' = "persist"
            /\ UNCHANGED <<rnew, task>>
    /\ UNCHANGED <<res, row_sum, iter, persisted, out, vars_input, vars_mmap, vars_hist, generation>>

\* next_power, the closure of column i at entry j = task[i]
NextPowerStep(i) ==
    /\ pc = "next_power"
    /\ task[i] < get_amount_of_data
    /\ LET entry == get_entry(task[i])
       IN  IF InBounds(rnew[i], entry.row) /\ InBounds(res[i], entry.col)
           THEN /\ rnew' = [rnew EXCEPT ![i][entry.row + 1] =
                               FAdd(@, FMul(Get(res[i], entry.col), Fin(entry.value)))]
                /\ task' = [task EXCEPT ![i] = @ + 1]
                /\ UNCHANGED <<pc, res, row_sum, iter, persisted, out>>
           ELSE Panic
    /\ UNCHANGED <<vars_input, vars_mmap, vars_hist, generation>>

\* next_power returns the new columns; normalize begins on them
NextPowerDone ==
    /\ pc = "next_power"
    /\ \A i \in Dims : task[i] = get_amount_of_data
    /\ pc' = "normalize"
    /\ res' = rnew
    /\ rnew' = NoMatrix
    /\ UNCHANGED <<row_sum, task, iter, persisted, out, vars_input, vars_mmap, vars_hist, generation>>

RECURSIVE SumSquares(_, _, _)
\* the sum over dimensions i..dimension-1 of matrix[i][j]^2, in loop order
SumSquares(matrix, j, i) ==
    IF i = dimension
    THEN Zero
    ELSE FAdd(FSquare(Get(matrix[i], j)), SumSquares(matrix, j, i + 1))

\* normalize, the sequential pass that fills row_sum
NormalizeSum ==
    /\ pc = "normalize"
    /\ IF \A i \in Dims : \A j \in 0 .. (get_entity_counter - 1) : InBounds(res[i], j)
       THEN /\ row_sum' = [j \in 1 .. get_entity_counter |-> SumSquares(res, j - 1, 0)]
            /\ pc' = "normalize_div"
            /\ task' = NoTasks
            /\ UNCHANGED <<res, rnew, iter, persisted, out>>
       ELSE Panic
    /\ UNCHANGED <<vars_input, vars_mmap, vars_hist, generation>>

\* normalize, the closure of column i at entity j = task[i]
NormalizeStep(i) ==
    /\ pc = "normalize_div"
    /\ task[i] < get_entity_counter
    /\ LET j == task[i]
       IN  IF InBounds(res[i], j) /\ InBounds(row_sum, j)
           THEN /\ res' = [res EXCEPT ![i][j + 1] = FDiv(@, FSqrt(Get(row_sum, j)))]
                /\ task' = [task EXCEPT ![i] = j + 1]
                /\ UNCHANGED <<pc, rnew, row_sum, iter, persisted, out>>
           ELSE Panic
    /\ UNCHANGED <<vars_input, vars_mmap, vars_hist, generation>>

\* normalize returns; propagate's round `iter` is over
NormalizeDone ==
    /\ pc = "normalize_div"
    /\ \A i \in Dims : task[i] = get_entity_counter
    /\ pc' = "propagate"
    /\ iter' = iter + 1
    /\ row_sum' = <<>>
    /\ generation' = [generation EXCEPT ![iter + 1] = res]
    /\ UNCHANGED <<res, rnew, task, persisted, out, vars_input, vars_mmap, vars_hist>>

\* persist: embedding_persistor.put_metadata(entities_count, self.dimension)
PutMetadata ==
    /\ pc = "persist"
    /\ out' = Append(out, [call |-> "put_metadata",
                           entities_count |-> get_entity_counter,
                           dimension |-> dimension])
    /\ persisted' = 0
    /\ pc' = "persist_loop"
    /\ UNCHANGED <<res, rnew, row_sum, task, iter, vars_input, vars_mmap, vars_hist, generation>>

\* persist: the `dimension` floats of entity i, one from each column
Embedding(i) == [j \in 1 .. dimension |-> Get(res[j - 1], i)]

\* persist, one pass of `for i in 0..entities_count`
PersistEntity ==
    /\ pc = "persist_loop"
    /\ persisted < get_entity_counter
    /\ LET i == persisted
           hsh == get_hash(i)
       IN  IF get_entity(hsh)
           THEN IF \A j \in Dims : InBounds(res[j], i)
                THEN /\ out' = Append(out, [call |-> "put_data",
                                            entity |-> hsh,
                                            index |-> i,
                                            occur |-> get_hash_occurrence(hsh),
                                            embedding |-> Embedding(i)])
                     /\ persisted' = i + 1
                     /\ UNCHANGED <<pc, res, rnew, row_sum, task, iter>>
                ELSE Panic
           ELSE /\ persisted' = i + 1
                /\ UNCHANGED <<pc, res, rnew, row_sum, task, iter, out>>
    /\ UNCHANGED <<vars_input, vars_mmap, vars_hist, generation>>

\* persist: embedding_persistor.finish(); calculate_embeddings returns
Finish ==
    /\ pc = "persist_loop"
    /\ persisted = get_entity_counter
    /\ out' = Append(out, [call |-> "finish"])
    /\ pc' = "done"
    /\ UNCHANGED <<res, rnew, row_sum, task, iter, persisted, vars_input, vars_mmap, vars_hist, generation>>

NextMem ==
    \/ \E i \in Dims : InitializeStep(i)
    \/ InitializeDone
    \/ PropagateLoop
    \/ \E i \in Dims : NextPowerStep(i)
    \/ NextPowerDone
    \/ NormalizeSum
    \/ \E i \in Dims : NormalizeStep(i)
    \/ NormalizeDone
    \/ PutMetadata
    \/ PersistEntity
    \/ Finish

\* ------------------------------------- MatrixMultiplicatorMMap (disk-backed)
\* the iteration numbers a generation file can carry
Gens == 0 .. MaxIter

NoFile == [exists |-> FALSE, cells |-> <<>>]

\* `entities_count as u64 * self.dimension as u64 * 4`
number_of_bytes == get_entity_counter * dimension * 4

\* A u32 is 2 limbs of 16 bits, a usize 4 limbs, least significant first.
Limb == 2 ^ 16
U32(n) == <<n % Limb, n \div Limb>>

\* `a * k` on u32 in a build without overflow checks: the low 32 bits
wrapping_mul_u32(a, k) ==
    LET p1 == a[1] * k
        p2 == (a[2] * k) + (p1 \div Limb)
    IN  <<p1 % Limb, p2 % Limb>>

\* `a * k` on u32 leaves the range of u32
overflows_u32(a, k) == ((a[2] * k) + ((a[1] * k) \div Limb)) >= Limb

\* `a as usize`: zero-extended
as_usize(a) == <<a[1], a[2], 0, 0>>

\* `a * k` on usize
mul_usize(a, k) ==
    LET p1 == a[1] * k
        p2 == (a[2] * k) + (p1 \div Limb)
        p3 == (a[3] * k) + (p2 \div Limb)
        p4 == (a[4] * k) + (p3 \div Limb)
    IN  <<p1 % Limb, p2 % Limb, p3 % Limb, p4 % Limb>>

\* the number a usize stands for (below 2^31)
UsizeValue(a) == a[1] + (a[2] * Limb)

\* initialize: `par_chunks_mut((entities_count * 4) as usize)`, the product
\* taken on u32
chunk_size_initialize(entities_count) == as_usize(wrapping_mul_u32(entities_count, 4))

\* next_power and normalize: `par_chunks_mut(entities_count * 4)`, the
\* product taken on usize
chunk_size(entities_count) == mul_usize(as_usize(entities_count), 4)

\* variant: every task is handed the chunk at offset 0
ChunkStartShared(i, size) == 0

\* the byte offset at which chunk i of `par_chunks_mut(size).enumerate()` starts
ChunkStart(i, size) == i * UsizeValue(size)

\* the f32 that starts at byte offset start_idx of a mapped region
CellAt(start_idx) == (start_idx \div 4) + 1

\* OpenOptions::new().read(true).write(true).create(true).open(name):
\* a new empty file, or the file of that name as it is
OpenCreate(file) == IF file.exists THEN file ELSE [exists |-> TRUE, cells |-> <<>>]

\* file.set_len(bytes): cut, or extended with zero bytes
SetLen(file, bytes) ==
    [file EXCEPT !.cells = [k \in 1 .. (bytes \div 4) |->
                               IF k <= Len(file.cells) THEN file.cells[k] ELSE Zero]]

\* the generation the running round reads, and the one it writes
InputGen == iter_mmap
OutputGen == iter_mmap + 1

\* the mem run is over: the sparse matrix can be borrowed again
MemRunOver == pc \in {"done", "panic"}

\* `.unwrap()` on an Err: unwinding drops the mappings, the files stay
PanicMMap ==
    /\ pc_mmap' = "panic"
    /\ mapped' = {}
    /\ row_sum_mmap' = <<>>
    /\ task_mmap' = NoTasks
    /\ UNCHANGED <<disk, iter_mmap, persisted_mmap, out_mmap>>

\* initialize: open {id}_matrix_0
InitializeOpenMMap ==
    /\ MemRunOver
    /\ pc_mmap = "initialize_open"
    /\ disk' = [disk EXCEPT ![0] = OpenCreate(@)]
    /\ created' = created \cup {0}
    /\ stage' = [stage EXCEPT ![0] = "created"]
    /\ pc_mmap' = "initialize_set_len"
    /\ UNCHANGED <<mapped, row_sum_mmap, task_mmap, iter_mmap, persisted_mmap, out_mmap>>
    /\ UNCHANGED <<flushed, removed, fs_failed, vars_input, vars_mem>>

\* initialize: file.set_len(number_of_bytes)
InitializeSetLenMMap ==
    /\ pc_mmap = "initialize_set_len"
    /\ disk' = [disk EXCEPT ![0] = SetLen(@, number_of_bytes)]
    /\ pc_mmap' = "initialize_map"
    /\ UNCHANGED <<mapped, row_sum_mmap, task_mmap, iter_mmap, persisted_mmap, out_mmap>>
    /\ UNCHANGED <<vars_hist, vars_input, vars_mem>>

\* initialize: MmapMut::map_mut(&file)
InitializeMapMMap ==
    /\ pc_mmap = "initialize_map"
    /\ mapped' = mapped \cup {0}
    /\ task_mmap' = NoTasks
    /\ pc_mmap' = "initialize"
    /\ UNCHANGED <<disk, row_sum_mmap, iter_mmap, persisted_mmap, out_mmap>>
    /\ UNCHANGED <<vars_hist, vars_input, vars_mem>>

\* initialize, the closure of chunk i at entity j = task_mmap[i]
InitializeStepMMap(i) ==
    /\ pc_mmap = "initialize"
    /\ task_mmap[i] < get_entity_counter
    /\ LET j == task_mmap[i]
           hsh == get_hash(j)
           start_idx == ChunkStart(i, chunk_size_initialize(U32(get_entity_counter))) + (j * 4)
       IN  IF hsh # SENTINEL
           THEN /\ disk' = [disk EXCEPT ![0].cells[CellAt(start_idx)] = ColValue(hsh, i)]
                /\ flushed' = flushed \ {0}
           ELSE UNCHANGED <<disk, flushed>>
    /\ task_mmap' = [task_mmap EXCEPT ![i] = @ + 1]
    /\ UNCHANGED <<pc_mmap, mapped, row_sum_mmap, iter_mmap, persisted_mmap, out_mmap>>
    /\ UNCHANGED <<created, stage, removed, fs_failed, vars_input, vars_mem>>

\* initialize: every chunk is done
InitializeDoneMMap ==
    /\ pc_mmap = "initialize"
    /\ \A i \in Dims : task_mmap[i] = get_entity_counter
    /\ stage' = [stage EXCEPT ![0] = "computed"]
    /\ pc_mmap' = "initialize_flush"
    /\ UNCHANGED <<disk, mapped, row_sum_mmap, task_mmap, iter_mmap, persisted_mmap, out_mmap>>
    /\ UNCHANGED <<created, flushed, removed, fs_failed, vars_input, vars_mem>>

\* what runs after each `flush();`: its Result is dropped, so the same
\* statement follows Ok and Err
AfterFlush(site) ==
    CASE site = "initialize_flush" -> "propagate"
      [] site = "next_power_flush" -> "normalize"
      [] site = "normalize_flush" -> "remove_file"

\* initialize: mmap.flush(); propagate begins
InitializeFlushMMap ==
    /\ pc_mmap = "initialize_flush"
    /\ flushed' = flushed \cup {0}
    /\ iter_mmap' = 0
    /\ pc_mmap' = AfterFlush(pc_mmap)
    /\ UNCHANGED <<disk, mapped, row_sum_mmap, task_mmap, persisted_mmap, out_mmap>>
    /\ UNCHANGED <<created, stage, removed, fs_failed, vars_input, vars_mem>>

\* variant: the disk-backed loop runs one round more
RoundsLeftMMapInclusive(i) == i <= max_iter

\* propagate, `for i in 0..max_iter`: the loop goes on while i < max_iter
RoundsLeftMMap(i) == i < max_iter

\* propagate, `for i in 0..max_iter`: another round, or hand new_res to persist
PropagateLoopMMap ==
    /\ pc_mmap = "propagate"
    /\ pc_mmap' = IF RoundsLeftMMap(iter_mmap) THEN "next_power_open" ELSE "persist"
    /\ UNCHANGED <<disk, mapped, row_sum_mmap, task_mmap, iter_mmap, persisted_mmap, out_mmap>>
    /\ UNCHANGED <<vars_hist, vars_input, vars_mem>>

\* next_power: open {id}_matrix_{iteration + 1}
NextPowerOpenMMap ==
    /\ pc_mmap = "next_power_open"
    /\ disk' = [disk EXCEPT ![OutputGen] = OpenCreate(@)]
    /\ created' = created \cup {OutputGen}
    /\ stage' = [stage EXCEPT ![OutputGen] = "created"]
    /\ pc_mmap' = "next_power_set_len"
    /\ UNCHANGED <<mapped, row_sum_mmap, task_mmap, iter_mmap, persisted_mmap, out_mmap>>
    /\ UNCHANGED <<flushed, removed, fs_failed, vars_input, vars_mem>>

\* next_power: file.set_len(number_of_bytes)
NextPowerSetLenMMap ==
    /\ pc_mmap = "next_power_set_len"
    /\ disk' = [disk EXCEPT ![OutputGen] = SetLen(@, number_of_bytes)]
    /\ pc_mmap' = "next_power_map"
    /\ UNCHANGED <<mapped, row_sum_mmap, task_mmap, iter_mmap, persisted_mmap, out_mmap>>
    /\ UNCHANGED <<vars_hist, vars_input, vars_mem>>

\* next_power: MmapMut::map_mut(&file), then `input = Arc::new(res)`
NextPowerMapMMap ==
    /\ pc_mmap = "next_power_map"
    /\ mapped' = mapped \cup {OutputGen}
    /\ task_mmap' = NoTasks
    /\ pc_mmap' = "next_power"
    /\ UNCHANGED <<disk, row_sum_mmap, iter_mmap, persisted_mmap, out_mmap>>
    /\ UNCHANGED <<vars_hist, vars_input, vars_mem>>

\* next_power, the closure of chunk i at entry j = task_mmap[i]
NextPowerStepMMap(i) ==
    /\ pc_mmap = "next_power"
    /\ task_mmap[i] < get_amount_of_data
    /\ LET entry == get_entry(task_mmap[i])
           start_idx_input == ((i * get_entity_counter) + entry.col) * 4
           input_value == disk[InputGen].cells[CellAt(start_idx_input)]
           start_idx_output ==
               ChunkStart(i, chunk_size(U32(get_entity_counter))) + (entry.row * 4)
       IN  disk' = [disk EXCEPT ![OutputGen].cells[CellAt(start_idx_output)] =
                       FAdd(@, FMul(input_value, Fin(entry.value)))]
    /\ flushed' = flushed \ {OutputGen}
    /\ task_mmap' = [task_mmap EXCEPT ![i] = @ + 1]
    /\ UNCHANGED <<pc_mmap, mapped, row_sum_mmap, iter_mmap, persisted_mmap, out_mmap>>
    /\ UNCHANGED <<created, stage, removed, fs_failed, vars_input, vars_mem>>

\* variant: the input mapping outlives next_power
DroppedNothing == {}

\* the mappings dropped when for_each_with returns: `input`, the last
\* reference to the previous generation's MmapMut
DroppedByNextPower == {InputGen}

\* next_power: for_each_with returns
NextPowerDoneMMap ==
    /\ pc_mmap = "next_power"
    /\ \A i \in Dims : task_mmap[i] = get_amount_of_data
    /\ mapped' = mapped \ DroppedByNextPower
    /\ stage' = [stage EXCEPT ![OutputGen] = "computed"]
    /\ pc_mmap' = "next_power_flush"
    /\ UNCHANGED <<disk, row_sum_mmap, task_mmap, iter_mmap, persisted_mmap, out_mmap>>
    /\ UNCHANGED <<created, flushed, removed, fs_failed, vars_input, vars_mem>>

\* next_power: mmap_output.flush(); normalize begins
NextPowerFlushMMap ==
    /\ pc_mmap = "next_power_flush"
    /\ flushed' = flushed \cup {OutputGen}
    /\ pc_mmap' = AfterFlush(pc_mmap)
    /\ UNCHANGED <<disk, mapped, row_sum_mmap, task_mmap, iter_mmap, persisted_mmap, out_mmap>>
    /\ UNCHANGED <<created, stage, removed, fs_failed, vars_input, vars_mem>>

RECURSIVE SumSquaresMMap(_, _, _)
\* the sum over dimensions i..dimension-1 of the cell (i, j) squared
SumSquaresMMap(cells, j, i) ==
    IF i = dimension
    THEN Zero
    ELSE FAdd(FSquare(cells[CellAt(((i * get_entity_counter) + j) * 4)]),
              SumSquaresMMap(cells, j, i + 1))

\* normalize, the sequential pass that fills row_sum
NormalizeSumMMap ==
    /\ pc_mmap = "normalize"
    /\ row_sum_mmap' = [j \in 1 .. get_entity_counter |->
                           SumSquaresMMap(disk[OutputGen].cells, j - 1, 0)]
    /\ task_mmap' = NoTasks
    /\ pc_mmap' = "normalize_div"
    /\ UNCHANGED <<disk, mapped, iter_mmap, persisted_mmap, out_mmap>>
    /\ UNCHANGED <<vars_hist, vars_input, vars_mem>>

\* normalize, the closure of chunk i at entity j = task_mmap[i]
NormalizeStepMMap(i) ==
    /\ pc_mmap = "normalize_div"
    /\ task_mmap[i] < get_entity_counter
    /\ LET j == task_mmap[i]
           sum == Get(row_sum_mmap, j)
           start_idx == ChunkStart(i, chunk_size(U32(get_entity_counter))) + (j * 4)
       IN  disk' = [disk EXCEPT ![OutputGen].cells[CellAt(start_idx)] = FDiv(@, FSqrt(sum))]
    /\ flushed' = flushed \ {OutputGen}
    /\ task_mmap' = [task_mmap EXCEPT ![i] = @ + 1]
    /\ UNCHANGED <<pc_mmap, mapped, row_sum_mmap, iter_mmap, persisted_mmap, out_mmap>>
    /\ UNCHANGED <<created, stage, removed, fs_failed, vars_input, vars_mem>>

\* variant: normalize returns `res` without flushing it
AfterNormalizeNoFlush == "remove_file"

\* normalize ends with `res.flush(); res`
AfterNormalizeMMap == "normalize_flush"

\* normalize: every chunk is done
NormalizeDoneMMap ==
    /\ pc_mmap = "normalize_div"
    /\ \A i \in Dims : task_mmap[i] = get_entity_counter
    /\ stage' = [stage EXCEPT ![OutputGen] = "normalized"]
    /\ row_sum_mmap' = <<>>
    /\ pc_mmap' = AfterNormalizeMMap
    /\ UNCHANGED <<disk, mapped, task_mmap, iter_mmap, persisted_mmap, out_mmap>>
    /\ UNCHANGED <<created, flushed, removed, fs_failed, vars_input, vars_mem>>

\* normalize: res.flush(); back in propagate
NormalizeFlushMMap ==
    /\ pc_mmap = "normalize_flush"
    /\ flushed' = flushed \cup {OutputGen}
    /\ pc_mmap' = AfterFlush(pc_mmap)
    /\ UNCHANGED <<disk, mapped, row_sum_mmap, task_mmap, iter_mmap, persisted_mmap, out_mmap>>
    /\ UNCHANGED <<created, stage, removed, fs_failed, vars_input, vars_mem>>

\* variant: propagate deletes the file of the generation it has just computed
RemovedInRoundNext(i) == i + 1

\* the generation propagate deletes at the end of round i
RemovedInRound(i) == i

\* propagate: fs::remove_file({id}_matrix_{i}); round i is over
RemoveFileMMap ==
    /\ pc_mmap = "remove_file"
    /\ LET k == RemovedInRound(iter_mmap)
       IN  IF k \in Gens /\ disk[k].exists
           THEN /\ disk' = [disk EXCEPT ![k] = NoFile]
                /\ removed' = removed \cup {k}
                /\ iter_mmap' = iter_mmap + 1
                /\ pc_mmap' = "propagate"
                /\ UNCHANGED <<mapped, row_sum_mmap, task_mmap, persisted_mmap, out_mmap>>
           ELSE PanicMMap /\ UNCHANGED removed
    /\ UNCHANGED <<created, stage, flushed, fs_failed, vars_input, vars_mem>>

\* persist: embedding_persistor.put_metadata(entities_count, self.dimension)
PutMetadataMMap ==
    /\ pc_mmap = "persist"
    /\ out_mmap' = Append(out_mmap, [call |-> "put_metadata",
                                     entities_count |-> get_entity_counter,
                                     dimension |-> dimension])
    /\ persisted_mmap' = 0
    /\ pc_mmap' = "persist_loop"
    /\ UNCHANGED <<disk, mapped, row_sum_mmap, task_mmap, iter_mmap>>
    /\ UNCHANGED <<vars_hist, vars_input, vars_mem>>

\* variant: the offset of a row-major layout
EmbeddingMMapRowMajor(i) ==
    [j \in 1 .. dimension |-> disk[iter_mmap].cells[CellAt(((i * dimension) + (j - 1)) * 4)]]

\* persist: the `dimension` floats of entity i, read at
\* `((j * entities_count) + i) * 4` for each dimension j
EmbeddingMMap(i) ==
    [j \in 1 .. dimension |->
        disk[iter_mmap].cells[CellAt((((j - 1) * get_entity_counter) + i) * 4)]]

\* persist, one pass of `for i in 0..entities_count`
PersistEntityMMap ==
    /\ pc_mmap = "persist_loop"
    /\ persisted_mmap < get_entity_counter
    /\ LET i == persisted_mmap
           hsh == get_hash(i)
       IN  IF get_entity(hsh)
           THEN out_mmap' = Append(out_mmap,
                    [call |-> "put_data",
                     entity |-> hsh,
                     index |-> i,
                     occur |-> get_hash_occurrence(hsh),
                     embedding |-> EmbeddingMMap(i)])
           ELSE UNCHANGED out_mmap
    /\ persisted_mmap' = persisted_mmap + 1
    /\ UNCHANGED <<pc_mmap, disk, mapped, row_sum_mmap, task_mmap, iter_mmap>>
    /\ UNCHANGED <<vars_hist, vars_input, vars_mem>>

\* persist: embedding_persistor.finish(); persist returns and drops `res`
FinishMMap ==
    /\ pc_mmap = "persist_loop"
    /\ persisted_mmap = get_entity_counter
    /\ out_mmap' = Append(out_mmap, [call |-> "finish"])
    /\ mapped' = mapped \ {iter_mmap}
    /\ pc_mmap' = "remove_final"
    /\ UNCHANGED <<disk, row_sum_mmap, task_mmap, iter_mmap, persisted_mmap>>
    /\ UNCHANGED <<vars_hist, vars_input, vars_mem>>

\* the generation calculate_embeddings_mmap deletes after persist
FinalGen == max_iter

\* calculate_embeddings_mmap: fs::remove_file({id}_matrix_{max_iter})
RemoveFinalMMap ==
    /\ pc_mmap = "remove_final"
    /\ IF FinalGen \in Gens /\ disk[FinalGen].exists
       THEN /\ disk' = [disk EXCEPT ![FinalGen] = NoFile]
            /\ removed' = removed \cup {FinalGen}
            /\ pc_mmap' = "done"
            /\ UNCHANGED <<mapped, row_sum_mmap, task_mmap, iter_mmap, persisted_mmap, out_mmap>>
       ELSE PanicMMap /\ UNCHANGED removed
    /\ UNCHANGED <<created, stage, flushed, fs_failed, vars_input, vars_mem>>

\* the file-system calls whose Result is unwrapped
UnwrapSites == {"initialize_open", "initialize_set_len", "initialize_map",
                "next_power_open", "next_power_set_len", "next_power_map",
                "remove_file", "remove_final"}

\* the flush calls, whose Result is dropped
FlushSites == {"initialize_flush", "next_power_flush", "normalize_flush"}

\* open / set_len / map_mut / remove_file returns Err: `.unwrap()` panics
FsOpFails ==
    /\ MemRunOver
    /\ pc_mmap \in UnwrapSites
    /\ fs_failed' = TRUE
    /\ PanicMMap
    /\ UNCHANGED <<created, stage, flushed, removed, vars_input, vars_mem>>

\* flush returns Err: nothing reads the Result, the run goes on
FlushFails ==
    /\ pc_mmap \in FlushSites
    /\ fs_failed' = TRUE
    /\ pc_mmap' = AfterFlush(pc_mmap)
    /\ iter_mmap' = IF pc_mmap = "initialize_flush" THEN 0 ELSE iter_mmap
    /\ UNCHANGED <<disk, mapped, row_sum_mmap, task_mmap, persisted_mmap, out_mmap>>
    /\ UNCHANGED <<created, stage, flushed, removed, vars_input, vars_mem>>

NextMMap ==
    \/ InitializeOpenMMap
    \/ InitializeSetLenMMap
    \/ InitializeMapMMap
    \/ \E i \in Dims : InitializeStepMMap(i)
    \/ InitializeDoneMMap
    \/ InitializeFlushMMap
    \/ PropagateLoopMMap
    \/ NextPowerOpenMMap
    \/ NextPowerSetLenMMap
    \/ NextPowerMapMMap
    \/ \E i \in Dims : NextPowerStepMMap(i)
    \/ NextPowerDoneMMap
    \/ NextPowerFlushMMap
    \/ NormalizeSumMMap
    \/ \E i \in Dims : NormalizeStepMMap(i)
    \/ NormalizeDoneMMap
    \/ NormalizeFlushMMap
    \/ RemoveFileMMap
    \/ PutMetadataMMap
    \/ PersistEntityMMap
    \/ FinishMMap
    \/ RemoveFinalMMap

\* ---------------------------------------------------------- specifications
InitInput ==
    /\ hashes \in HashTables
    /\ entries \in SeqsUpTo(Entry, MaxEntries)
    /\ max_iter \in 0 .. MaxIter
    /\ entity_mapping \in SUBSET ({SENTINEL} \cup {HashAt(j) : j \in Ents})
    /\ probe = NoProbe
    /\ chunk = NoChunk

InitMem ==
    /\ pc = "initialize"
    /\ res = NoMatrix
    /\ rnew = NoMatrix
    /\ row_sum = <<>>
    /\ task = NoTasks
    /\ iter = 0
    /\ persisted = 0
    /\ out = <<>>
    /\ generation = [k \in Gens |-> NoMatrix]

\* a directory that holds no generation file of this matrix id
InitMMap ==
    /\ pc_mmap = "initialize_open"
    /\ disk = [k \in Gens |-> NoFile]
    /\ mapped = {}
    /\ row_sum_mmap = <<>>
    /\ task_mmap = NoTasks
    /\ iter_mmap = 0
    /\ persisted_mmap = 0
    /\ out_mmap = <<>>
    /\ created = {}
    /\ stage = [k \in Gens |-> "none"]
    /\ flushed = {}
    /\ removed = {}
    /\ fs_failed = FALSE

vars == <<vars_input, vars_mem, vars_mmap, vars_hist>>

\* both strategies on every input, the file system never failing
Init == InitInput /\ InitMem /\ InitMMap
Next == NextMem \/ NextMMap
Spec == Init /\ [][Next]_vars

\* the same, with file-system calls that may return Err
NextFault == NextMem \/ NextMMap \/ FsOpFails \/ FlushFails
SpecFault == Init /\ [][NextFault]_vars

\* the initializer's formula alone, on every hash of HashProbes
ApplyInitializer ==
    /\ ~probe.applied
    /\ probe' = [probe EXCEPT !.applied = TRUE,
                              !.rem = HashRem(hash(probe.hsh + probe.i))]
    /\ UNCHANGED <<hashes, entries, max_iter, entity_mapping, chunk>>
    /\ UNCHANGED <<vars_mem, vars_mmap, vars_hist>>

InitHash ==
    /\ hashes = [j \in 1 .. EntitiesCount |-> HashAt(j - 1)]
    /\ entries = <<>>
    /\ max_iter = 0
    /\ entity_mapping = {}
    /\ probe \in [hsh : HashProbes, i : Dims, applied : {FALSE}, rem : {0}]
    /\ chunk = NoChunk
    /\ InitMem
    /\ InitMMap

NextHash == ApplyInitializer
SpecHash == InitHash /\ [][NextHash]_vars

\* ================================================================== claims

\* some closure of next_power still reads generation k
Reading(k) ==
    /\ pc_mmap = "next_power"
    /\ InputGen = k
    /\ \E i \in Dims : task_mmap[i] < get_amount_of_data

C2_NoGenerationFileLeft ==
    /\ \A k \in Gens : k < max_iter => (k \in removed <=> iter_mmap > k)
    /\ max_iter \in removed =>
          /\ out_mmap # <<>>
          /\ out_mmap[Len(out_mmap)].call = "finish"
    /\ pc_mmap = "done" =>
          /\ created = 0 .. max_iter
          /\ removed = created
          /\ \A k \in created : ~disk[k].exists

\* C2 witness: a completed run of more than one round
C2_Witness ==
    /\ pc_mmap = "done"
    /\ max_iter > 1
    /\ created = 0 .. max_iter

\* the put_data calls of a writer's call sequence
DataCalls(calls) == {calls[k] : k \in {n \in 1 .. Len(calls) : calls[n].call = "put_data"}}

\* what the initializer's formula gives entity j, over all dimensions
InitVector(j) ==
    [i \in 1 .. dimension |->
        IF get_hash(j) = SENTINEL THEN Zero ELSE ColValue(get_hash(j), i - 1)]

RECURSIVE SumSq(_, _)
\* the sum of the squares of vec[i .. dimension]
SumSq(vec, i) ==
    IF i > dimension THEN Zero ELSE FAdd(FSquare(vec[i]), SumSq(vec, i + 1))

\* vec divided by its L2 norm
L2Normalized(vec) == [i \in 1 .. dimension |-> FDiv(vec[i], FSqrt(SumSq(vec, 1)))]

\* the L2 norm of vec is 1 within the rounding of the fixed-point stand-in
UnitNorm(vec) ==
    /\ \A i \in 1 .. dimension : vec[i].fin
    /\ 8 * Abs(SumSq(vec, 1).v - FracScale * FracScale) <= FracScale * FracScale

AllNaN(vec) == \A i \in 1 .. dimension : ~vec[i].fin

\* entity j's vector in the in-memory matrix / in generation file k
HasRow(matrix, j) == \A i \in Dims : InBounds(matrix[i], j)
Row(matrix, j) == [i \in 1 .. dimension |-> Get(matrix[i - 1], j)]
RowMMap(k, j) ==
    [i \in 1 .. dimension |-> disk[k].cells[((i - 1) * get_entity_counter) + j + 1]]

NoRoundStarted ==
    /\ pc \notin {"next_power", "normalize", "normalize_div"}
    /\ iter = 0
    /\ created \subseteq {0}
    /\ iter_mmap = 0

MetadataCall == [call |-> "put_metadata",
                 entities_count |-> get_entity_counter,
                 dimension |-> dimension]

\* the in-memory generation k and the generation file k hold the same cells
SameCells(k) ==
    \A i \in Dims : \A j \in Ents :
        /\ InBounds(generation[k][i], j)
        /\ Get(generation[k][i], j) = disk[k].cells[(i * get_entity_counter) + j + 1]

\* C5: for every input (sentinel slots at any index included) both
\* strategies complete and hand the writer the same metadata and the same
\* set of records, and after each phase the in-memory cell (i, j) equals the
\* mapped cell at offset i * entities_count + j.
C5_StrategiesAgree ==
    /\ pc # "panic"
    /\ pc_mmap # "panic"
    /\ pc_mmap = "propagate" => SameCells(iter_mmap)
    /\ (pc = "done" /\ pc_mmap = "done") =>
          /\ out[1] = out_mmap[1]
          /\ DataCalls(out) = DataCalls(out_mmap)

\* the number of put_data calls made for entity index j
DataCallsFor(calls, j) ==
    Cardinality({k \in 1 .. Len(calls) : calls[k].call = "put_data" /\ calls[k].index = j})

\* C6: in persist of both strategies, whatever the entity mapping resolves,
\* no record is emitted for an index whose hash is the sentinel or is not
\* resolved, and every index with a valid, resolved hash yields exactly one
\* record.
C6_OnlyValidResolvedEmitted ==
    /\ \A r \in DataCalls(out) \cup DataCalls(out_mmap) :
          /\ get_hash(r.index) # SENTINEL
          /\ get_entity(get_hash(r.index))
    /\ \A j \in Ents :
          (get_hash(j) # SENTINEL /\ get_entity(get_hash(j))) =>
              /\ pc = "done" => DataCallsFor(out, j) = 1
              /\ pc_mmap \in {"remove_final", "done"} => DataCallsFor(out_mmap, j) = 1

\* the calls are a prefix of: put_metadata, put_data*, finish
WriterProtocol(calls) ==
    /\ calls # <<>> => calls[1] = MetadataCall
    /\ \A k \in 2 .. Len(calls) :
          \/ calls[k].call = "put_data" /\ Len(calls[k].embedding) = dimension
          \/ calls[k].call = "finish" /\ k = Len(calls)

Finished(calls) == Len(calls) >= 2 /\ calls[Len(calls)] = [call |-> "finish"]

\* C7: in every completed run of either strategy the writer receives
\* exactly one put_metadata(entities_count, dimension), then put_data calls
\* (each with `dimension` floats, component j the final matrix cell
\* (j, entity)), then exactly one finish; no call is made before the last
\* propagation round has completed.
C7_WriterCallSequence ==
    /\ WriterProtocol(out)
    /\ WriterProtocol(out_mmap)
    /\ pc = "done" => Finished(out)
    /\ pc_mmap = "done" => Finished(out_mmap)
    /\ out # <<>> => (iter = max_iter /\ pc \in {"persist_loop", "done", "panic"})
    /\ out_mmap # <<>> =>
          /\ iter_mmap = max_iter
          /\ pc_mmap \in {"persist_loop", "remove_final", "done", "panic"}
          /\ stage[max_iter] = IF max_iter = 0 THEN "computed" ELSE "normalized"
    /\ pc \in {"persist_loop", "done"} =>
          \A r \in DataCalls(out) : r.embedding = Row(res, r.index)
    /\ pc_mmap \in {"persist_loop", "remove_final"} =>
          \A r \in DataCalls(out_mmap) : r.embedding = RowMMap(max_iter, r.index)

\* C7 witness: both runs have completed after at least one round, each with
\* two records emitted
C7_Witness ==
    /\ max_iter >= 1
    /\ pc = "done"
    /\ pc_mmap = "done"
    /\ Cardinality(DataCalls(out)) = 2
    /\ Cardinality(DataCalls(out_mmap)) = 2

\* C8: in the disk-backed strategy a failure of any file-system operation
\* (create, resize, map, flush, delete) aborts the run at once: no later
\* phase executes and no further call is made on the output writer.
C8_FsFailureAborts == fs_failed => pc_mmap = "panic"

\* C9 as claimed: the integer remainder hash(h + i) % M is in 0 .. M-1, so
\* the initializer's value lies in [0, 1).
C9_RemainderNonNegative ==
    probe.applied => (0 <= probe.rem /\ probe.rem <= max_hash - 1)

\* C9 as amended: the remainder keeps the sign of the i64 hash, so it is in
\* -(M-1) .. M-1 and the initializer's value lies in (-1, 1).
C9_RemainderSigned ==
    probe.applied =>
        /\ -(max_hash - 1) <= probe.rem
        /\ probe.rem <= max_hash - 1
        /\ IF IsNegative(hash(probe.hsh + probe.i)) THEN probe.rem <= 0 ELSE probe.rem >= 0

\* C9 witness: a valid hash whose initializer value is negative
C9_Witness ==
    /\ probe.applied
    /\ probe.hsh # SENTINEL
    /\ probe.rem < 0

\* C10: normalize never writes a non-finite value: after a round, an entity
\* that is the row of no entry keeps the all-zero vector, in the generation
\* and in the output, in both strategies.
C10_NoNonFiniteCell ==
    /\ \A i \in Dims : \A j \in 1 .. Len(res[i]) : res[i][j].fin
    /\ \A k \in Gens : \A c \in 1 .. Len(disk[k].cells) : disk[k].cells[c].fin
    /\ \A r \in DataCalls(out) \cup DataCalls(out_mmap) :
          \A i \in 1 .. dimension : r.embedding[i].fin


\* ------------------------------------------------- a rerun over leftovers
\* the cells of a generation file an aborted run has left behind: it was
\* killed after accumulating into the file (every cell holds 0.5)
StaleCells == [c \in 1 .. (EntitiesCount * dimension) |-> Fin(FracScale \div 2)]
StaleFile == [exists |-> TRUE, cells |-> StaleCells]

\* the directories a run can find: each {id}_matrix_k absent or left over
StaleDirs == [Gens -> {NoFile, StaleFile}]

\* a run of both strategies in a directory an earlier run of the same matrix
\* id may have aborted in; every valid entity is resolved
InitStale ==
    /\ hashes \in HashTables
    /\ entries \in SeqsUpTo(Entry, MaxEntries)
    /\ max_iter \in 0 .. MaxIter
    /\ entity_mapping = {HashAt(j) : j \in Ents}
    /\ probe = NoProbe
    /\ chunk = NoChunk
    /\ InitMem
    /\ pc_mmap = "initialize_open"
    /\ disk \in StaleDirs
    /\ mapped = {}
    /\ row_sum_mmap = <<>>
    /\ task_mmap = NoTasks
    /\ iter_mmap = 0
    /\ persisted_mmap = 0
    /\ out_mmap = <<>>
    /\ created = {}
    /\ stage = [k \in Gens |-> "none"]
    /\ flushed = {}
    /\ removed = {}
    /\ fs_failed = FALSE

SpecStale == InitStale /\ [][Next]_vars

\* no task of the running parallel phase has handled anything yet
NoTaskStarted == \A i \in Dims : task_mmap[i] = 0

AllZero(cells) == \A c \in 1 .. Len(cells) : cells[c] = Zero

NoSentinel == \A j \in Ents : get_hash(j) # SENTINEL

\* C11: in the disk-backed strategy every generation is all-zero before any
\* cell of it is written, whatever files the directory already holds, and a
\* rerun over leftover files hands the writer what a run in a clean
\* directory does (for a table without sentinel: what the in-memory run
\* hands it).
C11_GenerationStartsFromZero ==
    /\ (pc_mmap = "initialize" /\ NoTaskStarted) => AllZero(disk[0].cells)
    /\ (pc_mmap = "next_power" /\ NoTaskStarted) => AllZero(disk[OutputGen].cells)
    /\ (NoSentinel /\ pc = "done" /\ pc_mmap = "done") =>
          DataCalls(out) = DataCalls(out_mmap)

\* the phases whose work is fanned out over per-column tasks
ParallelPhases == {"initialize", "next_power", "normalize_div"}

\* the generation the running phase of the disk-backed run writes
WrittenGen == IF pc_mmap = "initialize" THEN 0 ELSE OutputGen

\* the cells of column i in a mapped region
ColumnCells(i) == ((i * get_entity_counter) + 1) .. ((i + 1) * get_entity_counter)

\* task i, and no other, has advanced by one
OnlyTaskAdvanced(before, after, i) ==
    /\ after[i] = before[i] + 1
    /\ \A k \in Dims \ {i} : after[k] = before[k]

\* the column the running phase of the in-memory run writes into
Written(matrix, fresh) == IF pc = "next_power" THEN fresh ELSE matrix

\* C12: in every parallel phase (initialize, accumulate, the division pass of
\* normalize) of both strategies and under every interleaving of the
\* per-column tasks, a cell of the output generation is only ever written by
\* the task of its dimension column, and during accumulation the previous
\* generation is not written at all.
C12_CellsWrittenByOwnTask ==
    [][ /\ (pc \in ParallelPhases /\ pc' = pc) =>
              /\ pc = "next_power" => res' = res
              /\ \A i \in Dims :
                    Written(res, rnew)[i] # Written(res', rnew')[i] =>
                        OnlyTaskAdvanced(task, task', i)
        /\ (pc_mmap \in ParallelPhases /\ pc_mmap' = pc_mmap) =>
              /\ \A k \in Gens \ {WrittenGen} : disk'[k] = disk[k]
              /\ Len(disk'[WrittenGen].cells) = Len(disk[WrittenGen].cells)
              /\ \A i \in Dims : \A c \in ColumnCells(i) :
                    disk'[WrittenGen].cells[c] # disk[WrittenGen].cells[c] =>
                        OnlyTaskAdvanced(task_mmap, task_mmap', i)
      ]_vars

\* C12 witness: two accumulation tasks of the disk-backed run are both under
\* way, each having written into its own column, the in-memory run having
\* completed its rounds
C12_Witness ==
    /\ pc = "done"
    /\ iter >= 1
    /\ pc_mmap = "next_power"
    /\ get_amount_of_data = MaxEntries
    /\ \A i \in Dims : task_mmap[i] = 1
    /\ \A i \in Dims : \E c \in ColumnCells(i) : disk[OutputGen].cells[c] # Zero

\* C13: in the in-memory strategy, for every hash table (sentinel allowed at
\* any index), initialize completes and each of the `dimension` columns it
\* returns has length entities_count with valid entity j's value at
\* position j (generation[0] is the matrix initialize returned, if it did).
C13_InitializeColumnsFull ==
    /\ pc = "panic" => generation[0] # NoMatrix
    /\ (pc = "propagate" /\ iter = 0) =>
          \A i \in Dims :
              /\ Len(res[i]) = get_entity_counter
              /\ \A j \in Ents :
                    get_hash(j) # SENTINEL => Get(res[i], j) = ColValue(get_hash(j), i)

\* the generation files of this run that are on disk
Existing == {k \in created : disk[k].exists}

\* S is {k, k+1} for some generation k
Consecutive(S) == \E k \in Gens : S = {k, k + 1}

\* C14: in every reachable state of a disk-backed run at most two generation
\* files created by the run exist and at most two generation mappings are
\* live, two of them being consecutive generations k and k+1; between
\* iterations (after the delete of generation k) exactly one generation file
\* exists.
C14_AtMostTwoGenerations ==
    /\ Cardinality(Existing) <= 2
    /\ Cardinality(mapped) <= 2
    /\ Cardinality(Existing) = 2 => Consecutive(Existing)
    /\ Cardinality(mapped) = 2 => Consecutive(mapped)
    /\ mapped \subseteq Existing
    /\ pc_mmap = "propagate" => (Cardinality(Existing) = 1 /\ mapped = Existing)

\* C14 witness: the second round accumulates, generations 1 and 2 both on
\* disk and both mapped, generation 0 deleted
C14_Witness ==
    /\ pc_mmap = "next_power"
    /\ iter_mmap = 1
    /\ Existing = {1, 2}
    /\ mapped = {1, 2}
    /\ 0 \in removed

RECURSIVE Accumulated(_, _, _)
\* the sum over the entries n .. amount_of_data - 1 with row r of
\* old[entry.col] * entry.value, old being one column of the previous
\* generation
Accumulated(old, r, n) ==
    IF n = get_amount_of_data
    THEN Zero
    ELSE LET entry == get_entry(n)
         IN  IF entry.row = r
             THEN FAdd(FMul(old[entry.col + 1], Fin(entry.value)), Accumulated(old, r, n + 1))
             ELSE Accumulated(old, r, n + 1)

\* column i of the generation file k
ColumnMMap(k, i) == [j \in 1 .. get_entity_counter |-> disk[k].cells[(i * get_entity_counter) + j]]

\* C15: for every entry stream (duplicates and row = col included) and every
\* dimension i, when the accumulation step has handled every entry,
\* new[i][r] is the sum over the entries (r, c, v) of old[i][c] * v, old
\* being the unmodified previous generation, and new[i][r] = 0 for every r
\* that is the row of no entry (in the disk-backed strategy: whatever the
\* directory held when the run began).
C15_AccumulationIsSparseProduct ==
    /\ (pc = "next_power" /\ \A i \in Dims : task[i] = get_amount_of_data) =>
          /\ res = generation[iter]
          /\ \A i \in Dims : \A r \in Ents :
                Get(rnew[i], r) = Accumulated(res[i], r, 0)
    /\ pc_mmap = "next_power_flush" =>
          \A i \in Dims : \A r \in Ents :
              ColumnMMap(OutputGen, i)[r + 1] = Accumulated(ColumnMMap(InputGen, i), r, 0)

\* where a run is while a round is under way, and once the rounds are over
RoundPhases == {"next_power", "normalize", "normalize_div"}
RoundPhasesMMap == {"next_power_open", "next_power_set_len", "next_power_map", "next_power",
                    "next_power_flush", "normalize", "normalize_div", "normalize_flush",
                    "remove_file"}
AfterRounds == {"persist", "persist_loop", "remove_final", "done"}

\* every task of the phase has handled its n items
AllTasksAt(tasks, n) == \A i \in Dims : tasks[i] = n

\* a round is only under way while iter < max_iter, and the rounds are over
\* exactly when max_iter of them have been counted, each having produced its
\* generation
RoundsCounted ==
    /\ pc \in RoundPhases => iter < max_iter
    /\ pc \in AfterRounds =>
          (iter = max_iter /\ \A k \in 1 .. max_iter : generation[k] # NoMatrix)
    /\ pc_mmap \in RoundPhasesMMap => iter_mmap < max_iter
    /\ pc_mmap \in AfterRounds =>
          (iter_mmap = max_iter /\ created = 0 .. max_iter
              /\ \A k \in 1 .. max_iter : stage[k] = "normalized")

\* a phase is left only when each of its tasks has finished; the sums are
\* taken from the undivided cells before the division pass begins and stay
\* as they are during it; the round counter advances by one, at the end of
\* a round
BarrierStep ==
    /\ (pc = "initialize" /\ pc' \notin {pc, "panic"}) =>
          (pc' = "propagate" /\ AllTasksAt(task, get_entity_counter))
    /\ (pc = "next_power" /\ pc' \notin {pc, "panic"}) =>
          (pc' = "normalize" /\ AllTasksAt(task, get_amount_of_data))
    /\ (pc = "normalize" /\ pc' \notin {pc, "panic"}) =>
          /\ pc' = "normalize_div"
          /\ res' = res
          /\ row_sum' = [j \in 1 .. get_entity_counter |-> SumSquares(res, j - 1, 0)]
    /\ (pc = "normalize_div" /\ pc' = pc) => row_sum' = row_sum
    /\ (pc = "normalize_div" /\ pc' \notin {pc, "panic"}) =>
          (pc' = "propagate" /\ AllTasksAt(task, get_entity_counter) /\ iter' = iter + 1)
    /\ iter' # iter => (pc = "normalize_div" /\ iter' = iter + 1)
    /\ pc' \in RoundPhases => pc \in RoundPhases \cup {"propagate"}
    /\ (pc_mmap = "initialize" /\ pc_mmap' # pc_mmap) =>
          (pc_mmap' = "initialize_flush" /\ AllTasksAt(task_mmap, get_entity_counter))
    /\ (pc_mmap = "next_power" /\ pc_mmap' # pc_mmap) =>
          (pc_mmap' = "next_power_flush" /\ AllTasksAt(task_mmap, get_amount_of_data))
    /\ (pc_mmap = "normalize" /\ pc_mmap' # pc_mmap) =>
          /\ pc_mmap' = "normalize_div"
          /\ disk' = disk
          /\ row_sum_mmap' = [j \in 1 .. get_entity_counter |->
                                 SumSquaresMMap(disk[OutputGen].cells, j - 1, 0)]
    /\ (pc_mmap = "normalize_div" /\ pc_mmap' = pc_mmap) => row_sum_mmap' = row_sum_mmap
    /\ (pc_mmap = "normalize_div" /\ pc_mmap' # pc_mmap) =>
          (pc_mmap' = "normalize_flush" /\ AllTasksAt(task_mmap, get_entity_counter))
    /\ iter_mmap' # iter_mmap => (pc_mmap = "remove_file" /\ iter_mmap' = iter_mmap + 1)
    /\ pc_mmap' \in RoundPhasesMMap => pc_mmap \in RoundPhasesMMap \cup {"propagate"}

\* C16: phases are separated by barriers in both strategies: no task of the
\* next round's accumulation starts before every column of the round before
\* has been divided; within normalize every entity's squared sum is complete,
\* taken from undivided cells, before any cell is divided; and the
\* accumulate+normalize pair runs exactly max_iter times, one after the
\* other.
C16_PhasesSeparatedByBarriers == [] RoundsCounted /\ [][BarrierStep]_vars

\* C16 witness: in the second round of the disk-backed run the division pass
\* is under way, one column divided through and another not begun, the
\* in-memory run having counted two rounds
C16_Witness ==
    /\ max_iter = 2
    /\ pc = "done"
    /\ iter = 2
    /\ pc_mmap = "normalize_div"
    /\ iter_mmap = 1
    /\ \E i, k \in Dims : task_mmap[i] = get_entity_counter /\ task_mmap[k] = 0

\* --------------------------------------------------- the chunk size alone
\* entities_count values around the points where entities_count * 4 leaves
\* u32, as u32 limbs
EntityCountProbes ==
    {<<lo, hi>> : lo \in {0, 1, 2, 65535}, hi \in {0, 1, 16383, 16384, 16385, 32768, 65535}}

\* u32 overflow panics in a build with overflow checks and wraps in one without
Builds == {"debug", "release"}

\* initialize: `(entities_count * 4) as usize`, entities_count being u32
ChunkInitialize ==
    /\ chunk.phase = "none"
    /\ chunk' = IF chunk.build = "debug" /\ overflows_u32(chunk.entities_count, 4)
                THEN [chunk EXCEPT !.phase = "initialize", !.panicked = TRUE]
                ELSE [chunk EXCEPT !.phase = "initialize",
                                   !.size = chunk_size_initialize(chunk.entities_count)]
    /\ UNCHANGED <<hashes, entries, max_iter, entity_mapping, probe>>
    /\ UNCHANGED <<vars_mem, vars_mmap, vars_hist>>

\* next_power: `entities_count * 4`, entities_count being usize
ChunkNextPower ==
    /\ chunk.phase = "none"
    /\ chunk' = [chunk EXCEPT !.phase = "next_power",
                              !.size = chunk_size(chunk.entities_count)]
    /\ UNCHANGED <<hashes, entries, max_iter, entity_mapping, probe>>
    /\ UNCHANGED <<vars_mem, vars_mmap, vars_hist>>

\* normalize: `entities_count * 4`, entities_count being usize
ChunkNormalize ==
    /\ chunk.phase = "none"
    /\ chunk' = [chunk EXCEPT !.phase = "normalize",
                              !.size = chunk_size(chunk.entities_count)]
    /\ UNCHANGED <<hashes, entries, max_iter, entity_mapping, probe>>
    /\ UNCHANGED <<vars_mem, vars_mmap, vars_hist>>

\* persist: column j begins at `(j * entities_count as usize) * 4`
ChunkPersist ==
    /\ chunk.phase = "none"
    /\ chunk' = [chunk EXCEPT !.phase = "persist",
                              !.size = mul_usize(as_usize(chunk.entities_count), 4)]
    /\ UNCHANGED <<hashes, entries, max_iter, entity_mapping, probe>>
    /\ UNCHANGED <<vars_mem, vars_mmap, vars_hist>>

InitChunk ==
    /\ hashes = [j \in 1 .. EntitiesCount |-> HashAt(j - 1)]
    /\ entries = <<>>
    /\ max_iter = 0
    /\ entity_mapping = {}
    /\ probe = NoProbe
    /\ chunk \in [entities_count : EntityCountProbes, build : Builds, phase : {"none"},
                  panicked : {FALSE}, size : {<<0, 0, 0, 0>>}]
    /\ InitMem
    /\ InitMMap

NextChunk == ChunkInitialize \/ ChunkNextPower \/ ChunkNormalize \/ ChunkPersist
SpecChunk == InitChunk /\ [][NextChunk]_vars

\* entities_count * 4 as a number, on limbs wide enough to hold it
FourTimes(entities_count) ==
    LET p1 == entities_count[1] * 4
        p2 == (entities_count[2] * 4) + (p1 \div Limb)
    IN  <<p1 % Limb, p2 % Limb, p2 \div Limb, 0>>

\* C17: for every entities_count representable as a u32, the chunk size in
\* bytes that disk-backed initialize uses is entities_count * 4 without
\* wrap-around, the same that next_power, normalize and persist use, so
\* that in every phase column i begins at byte i * entities_count * 4.
C17_ChunkSizeDoesNotWrap ==
    chunk.phase # "none" =>
        /\ ~chunk.panicked
        /\ chunk.size = FourTimes(chunk.entities_count)

=============================================================================
